---- MODULE Spec2Model ----
(***************************************************************************)
(* PCA with Numpy (Part_06.ipynb): the notebook's kernel state and its     *)
(* code cells, run top to bottom.  A cell that raises stops the run: the   *)
(* exception is shown under the cell and no later cell is executed.        *)
(*                                                                         *)
(* Matrices are records [nr, nc, a] (numpy's shape and entries), vectors   *)
(* are records [n, a].  Entries are integers; NaN stands for a non-finite  *)
(* float.  The CSV files are drawn from a bounded family in which every    *)
(* sample has at most one non-zero feature and no two samples share it, so *)
(* that the singular value decomposition is exact in integer arithmetic.   *)
(***************************************************************************)
EXTENDS Integers, Sequences, FiniteSets, TLC

VARIABLES
    pc,         \* the code cell that runs next
    err,        \* the exception that stopped the run, or "none"
    wineCsv,    \* Datasets/Wine.csv as read by cell 8
    irisCsv,    \* Datasets/Iris.csv as read by cell 38
    dataset,    \* the DataFrame bound to `dataset`
    Xh, y, X,   \* the ingestion cell's bindings
    rankOut,    \* what the rank cell displayed: <<d, m, rank>>
    U, s, Vh,   \* the decomposition
    P, R,       \* projection basis and projected coordinates
    fig,        \* what plt.scatter last drew
    nanRaises,  \* the LAPACK build reports a NaN input (True) or returns NaNs
    signFlip    \* the LAPACK build's sign convention for singular vectors

vars == <<pc, err, wineCsv, irisCsv, dataset, Xh, y, X, rankOut, U, s, Vh,
          P, R, fig, nanRaises, signFlip>>

----------------------------------------------------------------------------
(* Bounds of the model *)

MaxRows == 9
MaxIrisRows == 5
NumPatterns == 2

(* "The dataset has 178 points" *)
WinePoints == 178

(* A non-finite float, outside the range of every finite entry of the model *)
NaN == -1000000

----------------------------------------------------------------------------
(* Values *)

Mat(nr, nc, F(_, _)) ==
    [nr |-> nr, nc |-> nc, a |-> [i \in 1..nr |-> [j \in 1..nc |-> F(i, j)]]]

Vec(n, F(_)) == [n |-> n, a |-> [i \in 1..n |-> F(i)]]

UnboundMat == [nr |-> -1, nc |-> -1, a |-> <<>>]
UnboundVec == [n |-> -1, a |-> <<>>]
NoFrame == [nrows |-> -1, ncols |-> -1, num |-> <<>>, lab |-> <<>>]
NoFig == [n |-> -1, x |-> <<>>, y |-> <<>>, c |-> <<>>]

IsNaN(v) == v = NaN
Abs(v) == IF v < 0 THEN -v ELSE v
Sign(v) == IF v < 0 THEN -1 ELSE 1
Min(a, b) == IF a < b THEN a ELSE b
Max(a, b) == IF a > b THEN a ELSE b

Add(a, b) == IF IsNaN(a) \/ IsNaN(b) THEN NaN ELSE a + b
Mul(a, b) == IF IsNaN(a) \/ IsNaN(b) THEN NaN ELSE a * b

HasNaN(M) == \E i \in 1..M.nr : \E j \in 1..M.nc : IsNaN(M.a[i][j])

Transpose(M) == Mat(M.nc, M.nr, LAMBDA i, j : M.a[j][i])

RECURSIVE Dot(_, _, _, _, _)
Dot(A, B, i, j, k) ==
    IF k = 0 THEN 0
    ELSE Add(Dot(A, B, i, j, k - 1), Mul(A.a[i][k], B.a[k][j]))

(* A @ B for conformable A and B *)
MatMul(A, B) == Mat(A.nr, B.nc, LAMBDA i, j : Dot(A, B, i, j, A.nc))

----------------------------------------------------------------------------
(* The CSV files: what pd.read_csv returns for them.  A table is a        *)
(* DataFrame [nrows, ncols, num, lab]: its last column is the label       *)
(* column `lab`, the columns before it are the numeric columns `num`.     *)

FeatOf(i, pat, nf) == ((i - 1 + pat) % nf) + 1

Weight(i, pat) == IF pat % 2 = 1 THEN i * pat ELSE pat + 1 - i

(* Wine.csv: nc - 1 feature columns, then Customer_Segment *)
WineTable(n, nc, pat, nan) ==
    [nrows |-> n, ncols |-> nc,
     num |-> [i \in 1..n |-> [j \in 1..(nc - 1) |->
                IF nan /\ i = 1 /\ j = 2 THEN NaN
                ELSE IF i <= nc - 1 /\ j = FeatOf(i, pat, nc - 1)
                     THEN Weight(i, pat) ELSE 0]],
     lab |-> [i \in 1..n |-> (i % 3) + 1]]

WineFiles ==
    { WineTable(n, nc, pat, nan) :
        n \in 0..MaxRows, nc \in {13, 14}, pat \in 1..NumPatterns, nan \in BOOLEAN }
    \cup { WineTable(WinePoints, 14, pat, FALSE) : pat \in 1..NumPatterns }

SpeciesNames == <<"Iris-setosa", "Iris-versicolor", "Iris-virginica">>

(* Iris.csv: Id, nc - 2 feature columns, then Species *)
IrisTable(n, nc, pat, nan, odd) ==
    [nrows |-> n, ncols |-> nc,
     num |-> [i \in 1..n |-> [j \in 1..(nc - 1) |->
                IF j = 1 THEN i
                ELSE IF nan /\ i = 1 /\ j = 3 THEN NaN
                ELSE IF i <= nc - 2 /\ j - 1 = FeatOf(i, pat, nc - 2)
                     THEN Weight(i, pat) ELSE 0]],
     lab |-> [i \in 1..n |->
                IF odd /\ i = 1 THEN "Iris-other" ELSE SpeciesNames[(i % 3) + 1]]]

IrisFiles ==
    { IrisTable(n, nc, pat, nan, odd) :
        n \in 0..MaxIrisRows, nc \in {5, 6}, pat \in 1..NumPatterns,
        nan \in BOOLEAN, odd \in BOOLEAN }

----------------------------------------------------------------------------
(* pandas *)

Cell(df, i, j) == IF j = df.ncols THEN df.lab[i] ELSE df.num[i][j]

(* df.iloc[:, a:b].values: a slice is cut to the columns that exist *)
Iloc(df, a, b) ==
    LET lo == Min(a, df.ncols)
        hi == Min(b, df.ncols)
    IN  Mat(df.nrows, Max(hi - lo, 0), LAMBDA i, j : Cell(df, i, lo + j))

(* df.iloc[:, c].values, for c < df.ncols (IndexError otherwise) *)
IlocCol(df, c) == Vec(df.nrows, LAMBDA i : Cell(df, i, c + 1))

(* A value that is no key of the dict becomes 0 *)
SeriesMap_Default(col, d) ==
    [i \in DOMAIN col |-> IF col[i] \in DOMAIN d THEN d[col[i]] ELSE 0]

(* Series.map(dict): a value that is no key of the dict becomes NaN *)
SeriesMap(col, d) ==
    [i \in DOMAIN col |-> IF col[i] \in DOMAIN d THEN d[col[i]] ELSE NaN]

label_to_int ==
    ("Iris-setosa" :> 1) @@ ("Iris-versicolor" :> 2) @@ ("Iris-virginica" :> 3)

----------------------------------------------------------------------------
(* numpy *)

(* The slice with its end included *)
SliceInclusive(M, a, b) ==
    LET lo == Min(a, M.nc)
        hi == Min(b + 1, M.nc)
    IN  Mat(M.nr, Max(hi - lo, 0), LAMBDA i, j : M.a[i][lo + j])

(* M[:, a:b]: a slice is cut to the columns that exist *)
Slice(M, a, b) ==
    LET lo == Min(a, M.nc)
        hi == Min(b, M.nc)
    IN  Mat(M.nr, Max(hi - lo, 0), LAMBDA i, j : M.a[i][lo + j])

(* X = Xh, the transposition forgotten *)
IngestedX_NotTransposed(xh) == xh

(* Xh.T *)
IngestedX(xh) == Transpose(xh)

(* numpy's default for the keyword argument *)
full_matrices_default == TRUE

(* The keyword argument of both LA.svd calls *)
full_matrices == FALSE

(* The singular values left in the order of the rows *)
SingularOrder_Unsorted(rv, i) == i

(* LAPACK returns the singular values in descending order: the place of    *)
(* row i, whose only non-zero entry is rv[i], among the rows.              *)
SingularOrder(rv, i) ==
    1 + Cardinality({ i2 \in DOMAIN rv :
                        \/ Abs(rv[i2]) > Abs(rv[i])
                        \/ Abs(rv[i2]) = Abs(rv[i]) /\ i2 < i })

(* LA.svd(M, full_matrices=full) of a finite M with at most one non-zero   *)
(* entry in each row and in each column: the singular values are the       *)
(* absolute values of these entries, the singular vectors are unit         *)
(* vectors; the vectors of zero singular values complete the bases.        *)
Svd(M, full, flip) ==
    LET d == M.nr
        m == M.nc
        r == Min(d, m)
        ku == IF full THEN d ELSE r
        kv == IF full THEN m ELSE r
        rc == [i \in 1..d |->
                 IF \E j \in 1..m : M.a[i][j] # 0
                 THEN CHOOSE j \in 1..m : M.a[i][j] # 0 ELSE 0]
        rv == [i \in 1..d |-> IF rc[i] = 0 THEN 0 ELSE M.a[i][rc[i]]]
        pos == [i \in 1..d |-> SingularOrder(rv, i)]
        perm == [k \in 1..d |-> CHOOSE i \in 1..d : pos[i] = k]
        unused == { j \in 1..m : \A i \in 1..d : rc[i] # j }
        unusedAt == [q \in 1..m |->
                       IF q <= Cardinality(unused)
                       THEN CHOOSE j \in unused :
                              Cardinality({ j2 \in unused : j2 < j }) = q - 1
                       ELSE 0]
        zeros == [k \in 1..kv |->
                    Cardinality({ k2 \in 1..k : k2 > d \/ rv[perm[Min(k2, d)]] = 0 })]
        sg == IF flip THEN -1 ELSE 1
    IN  [U  |-> Mat(d, ku, LAMBDA i, k : IF perm[k] = i THEN sg ELSE 0),
         s  |-> Vec(r, LAMBDA k : Abs(rv[perm[k]])),
         Vh |-> Mat(kv, m, LAMBDA k, j :
                      IF k <= d /\ rv[perm[Min(k, d)]] # 0
                      THEN (IF rc[perm[k]] = j THEN sg * Sign(rv[perm[k]]) ELSE 0)
                      ELSE (IF unusedAt[zeros[k]] = j THEN 1 ELSE 0))]

(* What LA.svd leaves in its outputs when LAPACK runs on a NaN input and  *)
(* reports nothing *)
SvdNaN(M, full) ==
    LET r == Min(M.nr, M.nc)
    IN  [U  |-> Mat(M.nr, IF full THEN M.nr ELSE r, LAMBDA i, k : NaN),
         s  |-> Vec(r, LAMBDA k : NaN),
         Vh |-> Mat(IF full THEN M.nc ELSE r, M.nc, LAMBDA k, j : NaN)]

RECURSIVE SumOver(_, _)
SumOver(S, row) ==
    IF S = {} THEN 0
    ELSE LET j == CHOOSE j \in S : TRUE
         IN  Add(row[j], SumOver(S \ {j}, row))

(* P.T @ (X - mean of each row of X) *)
Projector_Centred(p, x) ==
    LET mean == [i \in 1..x.nr |->
                   LET t == SumOver({ j \in 1..x.nc : x.a[i][j] # 0 }, x.a[i])
                   IN  IF IsNaN(t) THEN NaN ELSE t \div x.nc]
    IN  MatMul(Transpose(p),
               Mat(x.nr, x.nc, LAMBDA i, j : Add(x.a[i][j], Mul(-1, mean[i]))))

(* P.T @ X *)
Projector(p, x) == MatMul(Transpose(p), x)

----------------------------------------------------------------------------
(* The cells *)

Running == err = "none"

Raise(kind) == err' = kind /\ pc' = pc

(* LA.matrix_rank(M) and LA.svd(M): how the call on M ends.  LAPACK may    *)
(* fail to converge on any input ("LinAlgError"); on a NaN input the build *)
(* either reports it or returns NaNs ("nan").                              *)
SvdOutcomes(M) ==
    IF HasNaN(M)
    THEN (IF nanRaises THEN {"LinAlgError"} ELSE {"nan"})
    ELSE {"ok", "LinAlgError"}

(* LA.matrix_rank: the number of singular values above the tolerance; the *)
(* maximum of no singular values is a ValueError                           *)
MatrixRank(M, outcome) ==
    IF outcome = "nan" THEN 0
    ELSE LET sv == Svd(M, FALSE, signFlip).s
         IN  Cardinality({ k \in 1..sv.n : sv.a[k] > 0 })

(* dataset = pd.read_csv("Datasets/Wine.csv") *)
ReadWine ==
    /\ Running /\ pc = "read_wine"
    /\ \E f \in WineFiles : wineCsv' = f /\ dataset' = f
    /\ pc' = "ingest_wine"
    /\ UNCHANGED <<err, irisCsv, Xh, y, X, rankOut, U, s, Vh, P, R, fig,
                   nanRaises, signFlip>>

(* Xh = dataset.iloc[:, a:b].values; y = dataset.iloc[:, c].values; X = Xh.T *)
Ingest(cell, a, b, c, next) ==
    /\ Running /\ pc = cell
    /\ Xh' = Iloc(dataset, a, b)
    /\ IF c < dataset.ncols
       THEN /\ y' = IlocCol(dataset, c)
            /\ X' = IngestedX(Xh')
            /\ pc' = next
            /\ err' = err
       ELSE /\ Raise("IndexError")
            /\ UNCHANGED <<y, X>>
    /\ UNCHANGED <<wineCsv, irisCsv, dataset, rankOut, U, s, Vh, P, R, fig,
                   nanRaises, signFlip>>

IngestWine == Ingest("ingest_wine", 0, 13, 13, "rank_wine")

(* X.shape, LA.matrix_rank(X) *)
Rank(cell, next) ==
    /\ Running /\ pc = cell
    /\ IF X.nr = 0 \/ X.nc = 0
       THEN Raise("ValueError") /\ rankOut' = rankOut
       ELSE \E o \in SvdOutcomes(X) :
              IF o = "LinAlgError"
              THEN Raise("LinAlgError") /\ rankOut' = rankOut
              ELSE /\ rankOut' = <<X.nr, X.nc, MatrixRank(X, o)>>
                   /\ pc' = next
                   /\ err' = err
    /\ UNCHANGED <<wineCsv, irisCsv, dataset, Xh, y, X, U, s, Vh, P, R, fig,
                   nanRaises, signFlip>>

RankWine == Rank("rank_wine", "svd_wine")

(* U, s, Vh = LA.svd(X, full_matrices=False) *)
SvdCell(cell, next) ==
    /\ Running /\ pc = cell
    /\ \E o \in SvdOutcomes(X) :
         IF o = "LinAlgError"
         THEN Raise("LinAlgError") /\ UNCHANGED <<U, s, Vh>>
         ELSE LET t == IF o = "nan" THEN SvdNaN(X, full_matrices)
                       ELSE Svd(X, full_matrices, signFlip)
              IN  /\ U' = t.U /\ s' = t.s /\ Vh' = t.Vh
                  /\ pc' = next
                  /\ err' = err
    /\ UNCHANGED <<wineCsv, irisCsv, dataset, Xh, y, X, rankOut, P, R, fig,
                   nanRaises, signFlip>>

SvdWine == SvdCell("svd_wine", "select_wine")

(* P = U[:,:2] *)
SelectWine ==
    /\ Running /\ pc = "select_wine"
    /\ P' = Slice(U, 0, 2)
    /\ pc' = "project_wine"
    /\ UNCHANGED <<err, wineCsv, irisCsv, dataset, Xh, y, X, rankOut, U, s, Vh,
                   R, fig, nanRaises, signFlip>>

(* R = P.T @ X *)
ProjectWine ==
    /\ Running /\ pc = "project_wine"
    /\ IF P.nr = X.nr
       THEN R' = Projector(P, X) /\ pc' = "scatter_wine" /\ err' = err
       ELSE Raise("ValueError") /\ R' = R
    /\ UNCHANGED <<wineCsv, irisCsv, dataset, Xh, y, X, rankOut, U, s, Vh, P,
                   fig, nanRaises, signFlip>>

(* plt.scatter(R[0,:], R[1,:], c=y) *)
Scatter(r, next) ==
    IF r.nr < 2
    THEN Raise("IndexError") /\ fig' = fig
    ELSE IF y.n # r.nc
    THEN Raise("ValueError") /\ fig' = fig
    ELSE /\ fig' = [n |-> r.nc, x |-> r.a[1], y |-> r.a[2], c |-> y.a]
         /\ pc' = next
         /\ err' = err

ScatterWine ==
    /\ Running /\ pc = "scatter_wine"
    /\ Scatter(R, "low_wine")
    /\ UNCHANGED <<wineCsv, irisCsv, dataset, Xh, y, X, rankOut, U, s, Vh, P, R,
                   nanRaises, signFlip>>

(* P = U[:,a:b]; R = P.T @ X; plt.scatter(R[0,:], R[1,:], c=y) *)
SelectProjectPlot(cell, a, b, next) ==
    /\ Running /\ pc = cell
    /\ P' = Slice(U, a, b)
    /\ IF P'.nr = X.nr
       THEN R' = Projector(P', X) /\ Scatter(R', next)
       ELSE Raise("ValueError") /\ UNCHANGED <<R, fig>>
    /\ UNCHANGED <<wineCsv, irisCsv, dataset, Xh, y, X, rankOut, U, s, Vh,
                   nanRaises, signFlip>>

LowWine == SelectProjectPlot("low_wine", 7, 9, "read_iris")

(* dataset = pd.read_csv("Datasets/Iris.csv") *)
ReadIris ==
    /\ Running /\ pc = "read_iris"
    /\ \E f \in IrisFiles : irisCsv' = f /\ dataset' = f
    /\ pc' = "encode_iris"
    /\ UNCHANGED <<err, wineCsv, Xh, y, X, rankOut, U, s, Vh, P, R, fig,
                   nanRaises, signFlip>>

(* dataset['Species'] = dataset['Species'].map(label_to_int) *)
EncodeIris ==
    /\ Running /\ pc = "encode_iris"
    /\ dataset' = [dataset EXCEPT !.lab = SeriesMap(dataset.lab, label_to_int)]
    /\ pc' = "ingest_iris"
    /\ UNCHANGED <<err, wineCsv, irisCsv, Xh, y, X, rankOut, U, s, Vh, P, R, fig,
                   nanRaises, signFlip>>

(* The iris ingestion with y left as it was *)
IngestIris_KeepsY ==
    /\ Running /\ pc = "ingest_iris"
    /\ Xh' = Iloc(dataset, 1, 5)
    /\ IF 5 < dataset.ncols
       THEN X' = IngestedX(Xh') /\ pc' = "rank_iris" /\ err' = err
       ELSE Raise("IndexError") /\ X' = X
    /\ UNCHANGED <<wineCsv, irisCsv, dataset, y, rankOut, U, s, Vh, P, R, fig,
                   nanRaises, signFlip>>

IngestIris == Ingest("ingest_iris", 1, 5, 5, "rank_iris")

RankIris == Rank("rank_iris", "svd_iris")

(* The iris decomposition with its exception swallowed *)
SvdIris_SwallowsError ==
    /\ Running /\ pc = "svd_iris"
    /\ \E o \in SvdOutcomes(X) :
         IF o = "LinAlgError"
         THEN UNCHANGED <<U, s, Vh>>
         ELSE LET t == IF o = "nan" THEN SvdNaN(X, full_matrices)
                       ELSE Svd(X, full_matrices, signFlip)
              IN  U' = t.U /\ s' = t.s /\ Vh' = t.Vh
    /\ pc' = "top_iris"
    /\ UNCHANGED <<err, wineCsv, irisCsv, dataset, Xh, y, X, rankOut, P, R, fig,
                   nanRaises, signFlip>>

SvdIris == SvdCell("svd_iris", "top_iris")

TopIris == SelectProjectPlot("top_iris", 0, 2, "low_iris")

LowIris == SelectProjectPlot("low_iris", 2, 4, "done")

----------------------------------------------------------------------------

Init ==
    /\ pc = "read_wine"
    /\ err = "none"
    /\ wineCsv = NoFrame /\ irisCsv = NoFrame /\ dataset = NoFrame
    /\ Xh = UnboundMat /\ X = UnboundMat /\ y = UnboundVec
    /\ rankOut = <<>>
    /\ U = UnboundMat /\ s = UnboundVec /\ Vh = UnboundMat
    /\ P = UnboundMat /\ R = UnboundMat
    /\ fig = NoFig
    /\ nanRaises \in BOOLEAN
    /\ signFlip \in BOOLEAN

Next ==
    \/ ReadWine \/ IngestWine \/ RankWine \/ SvdWine
    \/ SelectWine \/ ProjectWine \/ ScatterWine \/ LowWine
    \/ ReadIris \/ EncodeIris \/ IngestIris \/ RankIris \/ SvdIris
    \/ TopIris \/ LowIris

Spec == Init /\ [][Next]_vars

----------------------------------------------------------------------------
(* Where the run is *)

(* X is bound, to the wine matrix or to the iris matrix *)
WineX == pc \in {"rank_wine", "svd_wine", "select_wine", "project_wine",
                 "scatter_wine", "low_wine", "read_iris", "encode_iris",
                 "ingest_iris"}
IrisX == pc \in {"rank_iris", "svd_iris", "top_iris", "low_iris", "done"}

(* The last LA.svd call returned, and X has not been rebound since *)
TripleOfX == pc \in {"select_wine", "project_wine", "scatter_wine", "low_wine",
                     "read_iris", "encode_iris", "ingest_iris",
                     "top_iris", "low_iris", "done"}

(* The cells that select and project in one go, with their slices *)
SliceOf(cell) ==
    CASE cell = "low_wine" -> <<7, 9>>
      [] cell = "top_iris" -> <<0, 2>>
      [] cell = "low_iris" -> <<2, 4>>

Composite == {"low_wine", "top_iris", "low_iris"}

(* The features of the file X was ingested from, one sample per column *)
FileX ==
    IF WineX
    THEN Mat(13, wineCsv.nrows, LAMBDA i, j : wineCsv.num[j][i])
    ELSE Mat(4, irisCsv.nrows, LAMBDA i, j : irisCsv.num[j][i + 1])

(* The label of sample j in the file X was ingested from *)
FileLabel(j) ==
    IF WineX THEN wineCsv.lab[j]
    ELSE IF irisCsv.lab[j] \in DOMAIN label_to_int
         THEN label_to_int[irisCsv.lab[j]] ELSE NaN

(* What LA.svd(X, full_matrices=False) returns when it returns *)
EconomySvd(M) ==
    IF HasNaN(M) THEN SvdNaN(M, FALSE) ELSE Svd(M, FALSE, signFlip)

----------------------------------------------------------------------------
(* C1: whenever LA.svd has returned for the bound X (d x m), U is d x r,  *)
(* s has length r and Vh is r x m with r = min(d, m): the economy form,    *)
(* never the full d x d or m x m factors; the 13 x 178 wine matrix gives   *)
(* 13 singular values and a 4-row iris matrix with at least 4 samples      *)
(* gives 4.                                                                *)
C1_EconomyShapes ==
    TripleOfX =>
        LET r == Min(X.nr, X.nc)
        IN  /\ X.nr > 0 /\ X.nc > 0
            /\ U.nr = X.nr /\ U.nc = r
            /\ s.n = r
            /\ Vh.nr = r /\ Vh.nc = X.nc
            /\ (X.nr = 13 /\ X.nc = WinePoints => s.n = 13)
            /\ (X.nr = 4 /\ X.nc >= 4 => s.n = 4)

C1_Witness ==
    /\ pc = "select_wine"
    /\ X.nr = 13 /\ X.nc = WinePoints
    /\ U.nr = 13 /\ U.nc = 13 /\ s.n = 13 /\ Vh.nr = 13 /\ Vh.nc = WinePoints

----------------------------------------------------------------------------
(* C2: a selection that names a column index >= r is rejected with an     *)
(* index error by the selecting cell and binds no new basis P; no cell    *)
(* gets past a selection that is out of range.                             *)
C2_IndexValidation ==
    /\ (pc \in {"project_wine", "scatter_wine"} => U.nc >= 2)
    /\ (pc = "low_wine" /\ ~Running /\ U.nc < 9 =>
            err = "IndexError" /\ P = Slice(U, 0, 2))
    /\ (pc = "top_iris" /\ ~Running /\ U.nc < 2 =>
            err = "IndexError" /\ P.nr = 13)
    /\ (pc = "low_iris" /\ ~Running /\ U.nc < 4 =>
            err = "IndexError" /\ P = Slice(U, 0, 2))

----------------------------------------------------------------------------
(* What a selecting and a projecting step bind *)
C3_Selected(a, b) ==
    b <= U.nc =>
        /\ P'.nr = U.nr /\ P'.nc = b - a
        /\ \A i \in 1..U.nr : \A j \in 1..(b - a) : P'.a[i][j] = U.a[i][a + j]

C3_Step ==
    /\ (pc = "select_wine" => C3_Selected(0, 2))
    /\ (pc = "project_wine" => R'.nr = P.nc /\ R'.nc = X.nc)
    /\ \A cell \in Composite :
         pc = cell =>
            /\ C3_Selected(SliceOf(cell)[1], SliceOf(cell)[2])
            /\ (SliceOf(cell)[2] <= U.nc =>
                    /\ R'.nr = SliceOf(cell)[2] - SliceOf(cell)[1]
                    /\ R'.nc = X.nc)

(* C3: a selecting step whose slice a:b lies within the r columns of U    *)
(* binds P to the columns a..b-1 of U, of shape d x (b - a), and a         *)
(* projecting step binds R to a matrix of shape (b - a) x m, for X of     *)
(* shape d x m.                                                            *)
C3_SelectionShapes == [][C3_Step]_vars

C3_Witness ==
    /\ pc = "read_iris"
    /\ X.nr = 13 /\ X.nc = WinePoints
    /\ P.nr = 13 /\ P.nc = 2 /\ P = Slice(U, 7, 9)
    /\ R.nr = 2 /\ R.nc = WinePoints

----------------------------------------------------------------------------
(* LA.svd has been called on the bound X *)
C4_SvdCalledOnX ==
    \/ pc \in {"rank_wine", "rank_iris"} /\ ~Running
    \/ pc \in {"svd_wine", "svd_iris"}
    \/ TripleOfX

(* C4: whenever LA.svd has been called on the bound X (by the rank cell   *)
(* or by the decomposition cell) and X holds a NaN or has a zero           *)
(* dimension, the run has stopped with InvalidInputError.                  *)
C4_InvalidInputRejected ==
    (C4_SvdCalledOnX /\ (HasNaN(X) \/ X.nr = 0 \/ X.nc = 0)) =>
        err = "InvalidInputError"

----------------------------------------------------------------------------
(* C5: whenever X is bound, y has as many entries as X has columns, and    *)
(* entry j of y and column j of X are the label and the features of        *)
(* sample j of the file they were ingested from: no X and y of different   *)
(* lengths are ever passed on.                                             *)
C5_LabelsAligned ==
    (WineX \/ IrisX) =>
        LET fx == FileX
        IN  /\ y.n = X.nc
            /\ X.nr = fx.nr /\ X.nc = fx.nc
            /\ \A j \in 1..X.nc :
                 /\ y.a[j] = FileLabel(j)
                 /\ \A i \in 1..X.nr : X.a[i][j] = fx.a[i][j]

C5_Witness ==
    /\ pc = "done"
    /\ wineCsv.nrows = 9
    /\ X.nr = 4 /\ X.nc = 5 /\ y.n = 5
    /\ y.a[1] = 2 /\ y.a[2] = 3 /\ y.a[3] = 1

----------------------------------------------------------------------------
(* What every step of the run keeps to, as to exceptions and U, s, Vh *)
C6_Step ==
    /\ Running
    /\ (pc \in {"svd_wine", "svd_iris"} /\ err' # "none" =>
            U' = U /\ s' = s /\ Vh' = Vh /\ pc' = pc)
    /\ (pc \in {"select_wine", "project_wine"} \cup Composite =>
            /\ U = EconomySvd(X).U
            /\ s = EconomySvd(X).s
            /\ Vh = EconomySvd(X).Vh)

(* C6: once a cell has raised, no cell runs; an LA.svd call that raises    *)
(* binds none of U, s, Vh; and every selecting or projecting step runs    *)
(* with U, s, Vh being what LA.svd returned for the X bound at that step.  *)
C6_NoStaleTriple == [][C6_Step]_vars

C6_Witness ==
    /\ pc = "svd_iris" /\ err = "LinAlgError"
    /\ X.nr = 4
    /\ U.nr = 13 /\ s.n = 9 /\ Vh.nc = 9

----------------------------------------------------------------------------
(* What every step of the run keeps to, as to X *)
C7_Step ==
    /\ (pc \notin {"ingest_wine", "ingest_iris"} => X' = X)
    /\ (pc \in {"select_wine", "project_wine"} \cup Composite =>
            U' = U /\ s' = s /\ Vh' = Vh)
    /\ (pc \in {"project_wine"} \cup Composite /\ P'.nr = X.nr =>
            LET fx == FileX
            IN  X = fx /\ R' = MatMul(Transpose(P'), fx))

(* C7: only the ingestion cells change X; the selecting and projecting     *)
(* cells change none of U, s, Vh; and a projecting step binds R to         *)
(* P.T @ X for the X that was ingested from the file, neither centred nor  *)
(* scaled.                                                                 *)
C7_XUnchanged == [][C7_Step]_vars

C7_Witness ==
    /\ pc = "done"
    /\ ~HasNaN(X) /\ X = FileX
    /\ R = MatMul(Transpose(P), X)
    /\ \E j \in 1..R.nc : R.a[1][j] # 0

----------------------------------------------------------------------------
(* C8: whenever LA.svd has returned for a bound X without NaN, the         *)
(* singular values are non-negative and in descending order.               *)
C8_Descending ==
    (TripleOfX /\ ~HasNaN(X)) =>
        /\ \A k \in 1..s.n : s.a[k] >= 0
        /\ \A k \in 1..(s.n - 1) : s.a[k] >= s.a[k + 1]

C8_Witness ==
    /\ pc = "select_wine"
    /\ ~HasNaN(X)
    /\ s.n >= 3 /\ s.a[1] > s.a[2] /\ s.a[2] > s.a[3]
    /\ X.a[1][1] = 0 /\ Abs(X.a[2][1]) < s.a[1]

----------------------------------------------------------------------------
(* The Species column has been mapped *)
Encoded == pc \in {"ingest_iris", "rank_iris", "svd_iris", "top_iris",
                   "low_iris", "done"}

----------------------------------------------------------------------------
(* What every projecting and plotting step runs on *)
C10_YOfX ==
    /\ y.n = X.nc
    /\ \A j \in 1..X.nc : y.a[j] = FileLabel(j)

C10_Step ==
    /\ (pc = "project_wine" =>
            /\ U = EconomySvd(X).U /\ P = Slice(U, 0, 2)
            /\ P.nr = X.nr)
    /\ (pc = "scatter_wine" =>
            /\ R = MatMul(Transpose(P), X)
            /\ R.nc = y.n /\ C10_YOfX)
    /\ \A cell \in Composite :
         pc = cell =>
            /\ U = EconomySvd(X).U
            /\ P' = Slice(U, SliceOf(cell)[1], SliceOf(cell)[2])
            /\ P'.nr = X.nr
            /\ R' = MatMul(Transpose(P'), X)
            /\ R'.nc = y.n /\ C10_YOfX
            /\ (pc' # pc => fig'.x = R'.a[1] /\ fig'.y = R'.a[2] /\ fig'.c = y.a)

(* C10: every projecting step multiplies a P sliced from the U that        *)
(* LA.svd returned for the bound X, so P has as many rows as X; every      *)
(* plotting step draws the R computed from the bound P and X, coloured by  *)
(* the labels ingested with that X, one label per column of R.             *)
C10_PipelineOrder == [][C10_Step]_vars

C10_Witness ==
    /\ pc = "done"
    /\ wineCsv.nrows = 9 /\ irisCsv.nrows = 5
    /\ X.nr = 4 /\ P.nr = 4 /\ P = Slice(U, 2, 4)
    /\ R.nc = 5 /\ fig.n = 5 /\ fig.c = y.a /\ fig.x = R.a[1]

====
